---- MODULE Spec2Model ----
(***************************************************************************)
(* Model of Hathor's audio playback engine: the AudioManager facade        *)
(* (playback_manager.rs), the two mpsc channels it shares with the         *)
(* playback thread, and the playback thread's loop (playback.rs); and of    *)
(* the library functions that read audio files (file_management.rs,        *)
(* from_file.rs) and store them in the database (audio_files.rs,           *)
(* playlists.rs, user_media_folders.rs).                                   *)
(***************************************************************************)
EXTENDS Integers, Sequences, FiniteSets, TLC

\* ------------------------------------------------------------------ bounds
\* Number of facade calls the caller thread issues in a run.
MaxCalls == 3
\* Number of packets each track of a fixture file carries.
NPkts == 3
\* Largest timestamp (seconds) the caller seeks to.
MaxSeek == 2
\* Longest slice handed to insert_audios.
MaxAudios == 67
\* Longest list of paths handed to get_audios_from_paths.
MaxPaths == 3
\* Number of insert_user_media_folder calls in a run.
MaxFolders == 3

\* -------------------------------------------------------------- constants
\* database.rs: const INSERT_BATCH_SIZE: u16 = 64
INSERT_BATCH_SIZE == 64
\* Nanoseconds in a second (Duration::whole_nanoseconds).
NanosPerSecond == 1000000000

\* ------------------------------------------------------- fixture files
\* Option::None of the Playback fields.
None == [some |-> FALSE]

\* Files handed to change_audio.  "bad" cannot be opened or probed, "nullonly"
\* holds only tracks of CODEC_TYPE_NULL, "nocodec" holds a track whose codec
\* no registered decoder supports, "multi" is a container with tracks
\* [0 (null codec), 1 (pcm)], "mono" holds one pcm track.
Files == {"bad", "nullonly", "nocodec", "multi", "mono"}

\* Whether File::open and the probe succeed.
Probes(f) == f # "bad"

\* The tracks a probed container declares, in declaration order.
Tracks(f) ==
    CASE f = "multi"    -> << [id |-> 0, codec |-> "null"], [id |-> 1, codec |-> "pcm"] >>
      [] f = "mono"     -> << [id |-> 0, codec |-> "pcm"] >>
      [] f = "nocodec"  -> << [id |-> 0, codec |-> "null"], [id |-> 3, codec |-> "unknown"] >>
      [] f = "nullonly" -> << [id |-> 0, codec |-> "null"] >>
      [] OTHER          -> << >>

\* Ticks per second of the file's time base (Time -> timestamp conversion).
TimeBase(f) == IF f = "mono" THEN 2 ELSE 1

\* What the decoder returns for the i-th packet of mono's track: the second
\* packet is corrupt (a recoverable DecodeError) and the last one, from the
\* third on, breaks the stream (any other error).
MonoDecode(i) ==
    IF i = 2 THEN "decode_err"
    ELSE IF i >= 3 /\ i = NPkts THEN "fatal"
    ELSE "ok"

\* The packets the demuxer yields, in demux order.  multi interleaves the
\* packets of its two tracks.
Packets(f) ==
    CASE f = "multi" ->
           [k \in 1..(2 * NPkts) |->
              [track |-> (k + 1) % 2, ts |-> (k - 1) \div 2, dec |-> "ok"]]
      [] f = "mono" ->
           [k \in 1..NPkts |-> [track |-> 0, ts |-> k - 1, dec |-> MonoDecode(k)]]
      [] OTHER -> << >>

\* ---------------------------------------------------------------- state
VARIABLES
    cmd_chan,         \* mpsc channel AudioManager -> playback thread
    reply_chan,       \* mpsc channel playback thread -> AudioManager
    caller,           \* caller thread: "idle", "in_pause" (blocked in recv), "dropped"
    calls,            \* facade calls issued so far
    last_ret,         \* what the last facade call returned
    pc,               \* playback thread: "await", "loop", "packet", "exited"
    exit,             \* why the playback thread exited
    format_reader,    \* Playback.format_reader
    decoder,          \* Playback.decoder
    audio_output,     \* Playback.audio_output
    play,             \* Playback.play
    seek_ts_seconds,  \* Playback.seek_ts_seconds
    track_id,         \* Playback.track_id
    handled,          \* history: ids of the commands handled, in order
    replied,          \* history: ids of the commands replied to, in order
    seek_floor,       \* history: floor resolved by the last handled Seek/ResetPlayback
    step,             \* history: what the playback thread's last step did
    sunk,             \* history: the packets written to the sink, in order
    seg,              \* history: Len(sunk) when a Seek, ResetPlayback or ChangeAudio was last handled
    decoded_ok,       \* history: a packet of the selected track has been decoded successfully
    since_pull,       \* history: the commands handled since the last packet pull
    loaded,           \* history: the file of the last ChangeAudio command that succeeded
    waiting,          \* history: for each queued command, its place in the queue when sent
                      \*          minus the packets pulled since
    audios,           \* insert_audios: the slice to insert
    audio_iter,       \* insert_audios: elements the iterator has yielded
    insert_pc,        \* where the function running on the connection is: "idle", "returned",
                      \*   insert_audios "peek", "batch", "commit",
                      \*   insert_audios_into_playlist "playlist_peek", "playlist_batch",
                      \*   "playlist_commit", insert_user_media_folder "folder_call",
                      \*   "folder_execute", "folder_end"
    batch_i,          \* insert_next_batch_of_audios: iterations of the for loop done
    transaction,      \* the open transaction and the rows written in it
    table,            \* the committed rows of audios joined with audio_files
    insert_ret,       \* what insert_audios returned: "none", "ok", "err", "panic"
    got,              \* what get_audio_by_hash returned, and for which element
    paths,            \* get_audios_from_paths: the paths to read
    path_iter,        \* get_audios_from_paths: paths the iterator has yielded
    found,            \* get_audios_from_paths: the AudioFiles collected
    scan_ret,         \* get_audios_from_paths: "none", "running", "ok", "panic"
    playlists,        \* the committed rows of the playlists table
    folder_paths,     \* the paths insert_user_media_folder is called with, one call each
    folder_rets,      \* what the insert_user_media_folder calls made so far returned
    folders           \* the committed rows of the user media folders table

chans    == << cmd_chan, reply_chan >>
facade   == << caller, calls, last_ret >>
playback == << format_reader, decoder, audio_output, play, seek_ts_seconds, track_id >>
history  == << handled, replied, seek_floor, step, sunk, seg, decoded_ok, since_pull,
              loaded >>
store    == << audios, audio_iter, insert_pc, batch_i, transaction, table, insert_ret, got >>
scan     == << paths, path_iter, found, scan_ret >>
catalog  == << playlists, folder_paths, folder_rets, folders >>
library  == << store, scan, catalog >>
vars     == << chans, facade, pc, exit, playback, history, waiting, library >>

\* Ids are given to commands in send order.
NextId == calls + 1

\* ------------------------------------------------------------ helpers
\* get_first_supported_track: index of the first track whose codec is not
\* CODEC_TYPE_NULL, 0 for Option::None.
RECURSIVE FirstFrom(_, _)
FirstFrom(tracks, i) ==
    IF i > Len(tracks) THEN 0
    ELSE IF tracks[i].codec # "null" THEN i
    ELSE FirstFrom(tracks, i + 1)

get_first_supported_track(tracks) == FirstFrom(tracks, 1)

\* get_format_reader: Ok (a reader at the start of the file) or Err.
get_format_reader(f) ==
    IF Probes(f) THEN [ok |-> TRUE, reader |-> [some |-> TRUE, file |-> f, pos |-> 0]]
    ELSE [ok |-> FALSE]

\* get_decoder: panics when get_first_supported_track is None (unwrap), and
\* fails when the codec registry has no decoder for the track's codec.
get_decoder(f) ==
    LET i == get_first_supported_track(Tracks(f)) IN
    IF i = 0 THEN [res |-> "panic"]
    ELSE IF Tracks(f)[i].codec # "pcm" THEN [res |-> "err"]
    ELSE [res |-> "ok",
          decoder |-> [some |-> TRUE, file |-> f, track |-> Tracks(f)[i].id, fed |-> 0]]

\* Mutant: the id of the container's first track is selected, whatever its codec.
change_audio_FirstTrackId(f) ==
    LET fr == get_format_reader(f) IN
    IF ~fr.ok THEN [res |-> "err"]
    ELSE LET d == get_decoder(f) IN
         IF d.res # "ok" THEN [res |-> d.res]
         ELSE [res |-> "ok",
               track_id |-> Tracks(f)[1].id,
               format_reader |-> fr.reader,
               decoder |-> d.decoder]

\* Playback::change_audio: "ok" with the new fields, "err" or "panic".
change_audio(f) ==
    LET fr == get_format_reader(f) IN
    IF ~fr.ok THEN [res |-> "err"]
    ELSE LET d == get_decoder(f) IN
         IF d.res # "ok" THEN [res |-> d.res]
         ELSE [res |-> "ok",
               track_id |-> Tracks(f)[get_first_supported_track(Tracks(f))].id,
               format_reader |-> fr.reader,
               decoder |-> d.decoder]


\* Indices of the packets of track tid whose timestamp is at least req.
AtOrAfter(f, tid, req) ==
    {k \in 1..Len(Packets(f)) : Packets(f)[k].track = tid /\ Packets(f)[k].ts >= req}

Min(S) == CHOOSE x \in S : \A y \in S : x <= y

\* FormatReader::seek(SeekMode::Accurate, SeekTo::Time{time, track_id}): the
\* time is converted to a timestamp of the track's time base (required_ts).
\* A time beyond the end of the track is an error and leaves the reader in
\* place; otherwise the reader lands on a packet at or before the first one
\* of the track that reaches required_ts.
format_reader_seek(fr, tid, ts) ==
    LET req == ts * TimeBase(fr.file)
        at  == AtOrAfter(fr.file, tid, req)
    IN  IF at = {}
        THEN {[ok |-> FALSE, err |-> e, required_ts |-> req, pos |-> fr.pos]
                 : e \in {"ResetRequired", "SeekError"}}
        ELSE {[ok |-> TRUE, err |-> "none", required_ts |-> req, pos |-> p]
                 : p \in 0..(Min(at) - 1)}

\* Mutant: a seek with no track loaded takes the timestamp as the floor.
seek_FloorSetWithoutTrack(ts) ==
    IF format_reader.some /\ decoder.some
    THEN {[format_reader   |-> [format_reader EXCEPT !.pos = s.pos],
           decoder         |-> [decoder EXCEPT !.fed = 0],
           seek_ts_seconds |-> CASE s.ok -> s.required_ts
                                 [] s.err = "ResetRequired" -> 0
                                 [] OTHER -> 0]
            : s \in format_reader_seek(format_reader, track_id, ts)}
    ELSE {[format_reader   |-> format_reader,
           decoder         |-> decoder,
           seek_ts_seconds |-> ts]}

\* Mutant: a failed seek keeps the timestamp that was asked for as the floor.
seek_FloorKeptOnError(ts) ==
    IF format_reader.some /\ decoder.some
    THEN {[format_reader   |-> [format_reader EXCEPT !.pos = s.pos],
           decoder         |-> [decoder EXCEPT !.fed = 0],
           seek_ts_seconds |-> s.required_ts]
            : s \in format_reader_seek(format_reader, track_id, ts)}
    ELSE {[format_reader   |-> format_reader,
           decoder         |-> decoder,
           seek_ts_seconds |-> 0]}

\* Playback::seek: the values of format_reader, decoder and seek_ts_seconds
\* it may leave behind.
seek(ts) ==
    IF format_reader.some /\ decoder.some
    THEN {[format_reader   |-> [format_reader EXCEPT !.pos = s.pos],
           decoder         |-> [decoder EXCEPT !.fed = 0],
           seek_ts_seconds |-> CASE s.ok -> s.required_ts
                                 [] s.err = "ResetRequired" -> 0
                                 [] OTHER -> 0]
            : s \in format_reader_seek(format_reader, track_id, ts)}
    ELSE {[format_reader   |-> format_reader,
           decoder         |-> decoder,
           seek_ts_seconds |-> 0]}

\* The match on the command in try_consume_next_audio_command: the outcomes
\* of handling cmd in the current state.  res is "ok" when the match yields
\* a response, "err" when the ? on change_audio returns early, "panic" when
\* an unwrap fails.
Same == [res |-> "ok", play |-> play, format_reader |-> format_reader,
         decoder |-> decoder, track_id |-> track_id,
         seek_ts_seconds |-> seek_ts_seconds]

\* Mutant: Pause toggles the flag.
HandlePause_Toggles == {[Same EXCEPT !.play = ~play]}

\* AudioCommand::Pause (lines 128-131)
HandlePause == {[Same EXCEPT !.play = FALSE]}

\* Mutant: Play also takes the demuxer back to the start of the track.
HandlePlay_Rewinds ==
    {[Same EXCEPT !.play = TRUE,
                  !.format_reader = IF format_reader.some
                                    THEN [format_reader EXCEPT !.pos = 0]
                                    ELSE format_reader]}

\* AudioCommand::Play (lines 132-135)
HandlePlay == {[Same EXCEPT !.play = TRUE]}

\* AudioCommand::Seek(ts) (lines 136-139)
HandleSeek(ts) ==
    {[Same EXCEPT !.format_reader = s.format_reader, !.decoder = s.decoder,
                  !.seek_ts_seconds = s.seek_ts_seconds] : s \in seek(ts)}

\* Mutant: ResetPlayback seeks to 0 and leaves the floor as it was.
HandleResetPlayback_FloorKept ==
    {[Same EXCEPT !.format_reader = s.format_reader, !.decoder = s.decoder]
        : s \in seek(0)}

\* AudioCommand::ResetPlayback (lines 140-143)
HandleResetPlayback ==
    {[Same EXCEPT !.format_reader = s.format_reader, !.decoder = s.decoder,
                  !.seek_ts_seconds = s.seek_ts_seconds] : s \in seek(0)}

\* Mutant: a track switch starts the playback.
HandleChangeAudio_StartsPlaying(f) ==
    LET c == change_audio(f) IN
    IF c.res = "ok"
    THEN {[Same EXCEPT !.format_reader = c.format_reader,
                       !.decoder = c.decoder, !.track_id = c.track_id,
                       !.play = TRUE]}
    ELSE {[Same EXCEPT !.res = c.res]}

\* Mutant: a track switch is acknowledged and leaves the track that is
\* playing in place.
HandleChangeAudio_KeepsTrack(f) ==
    LET c == change_audio(f) IN
    IF c.res = "ok"
    THEN IF format_reader.some THEN {Same}
         ELSE {[Same EXCEPT !.format_reader = c.format_reader,
                            !.decoder = c.decoder, !.track_id = c.track_id]}
    ELSE {[Same EXCEPT !.res = c.res]}

\* Mutant: a track switch keeps the decoder that is there.
HandleChangeAudio_KeepsDecoder(f) ==
    LET c == change_audio(f) IN
    IF c.res = "ok"
    THEN {[Same EXCEPT !.format_reader = c.format_reader,
                       !.decoder = IF decoder.some THEN decoder ELSE c.decoder,
                       !.track_id = c.track_id]}
    ELSE {[Same EXCEPT !.res = c.res]}

\* AudioCommand::ChangeAudio(audio) (lines 144-147)
HandleChangeAudio(f) ==
    LET c == change_audio(f) IN
    IF c.res = "ok"
    THEN {[Same EXCEPT !.format_reader = c.format_reader,
                       !.decoder = c.decoder, !.track_id = c.track_id]}
    ELSE {[Same EXCEPT !.res = c.res]}

HandleCommand(cmd) ==
    CASE cmd.op = "Pause"         -> HandlePause
      [] cmd.op = "Play"          -> HandlePlay
      [] cmd.op = "Seek"          -> HandleSeek(cmd.arg)
      [] cmd.op = "ResetPlayback" -> HandleResetPlayback
      [] cmd.op = "ChangeAudio"   -> HandleChangeAudio(cmd.arg)

\* Mutant: the newest message is taken instead of the oldest.
TryRecvIndex_Newest(chan) == Len(chan)

\* Receiver::try_recv takes the message at the head of the channel.
TryRecvIndex(chan) == 1

\* Mutant: taking a message empties the channel.
RemoveAt_DropsRest(chan, i) == << >>

\* The channel once try_recv has taken message i out of it.
RemoveAt(chan, i) == SubSeq(chan, 1, i - 1) \o SubSeq(chan, i + 1, Len(chan))

\* Mutant: the check of play on line 34 is missing.
AfterCommand_NoPlayCheck(at, fr, dec, pl) ==
    IF at = "await"
    THEN IF ~fr.some /\ ~dec.some THEN "await" ELSE "loop"
    ELSE "packet"

\* Mutant: the first loop (lines 28-30) ends after one command check.
AfterCommand_NoAwaitLoop(at, fr, dec, pl) ==
    IF at = "await" THEN "loop"
    ELSE IF ~pl THEN "loop" ELSE "packet"

\* Where the playback thread goes after try_consume_next_audio_command
\* returned Ok: the first loop runs until a reader or a decoder is present,
\* the second one skips the packet while play is false.
AfterCommand(at, fr, dec, pl) ==
    IF at = "await"
    THEN IF ~fr.some /\ ~dec.some THEN "await" ELSE "loop"
    ELSE IF ~pl THEN "loop" ELSE "packet"

\* Mutant: the error of change_audio becomes the response of the match.
ReturnsEarly_Never(res) == FALSE

\* Line 145: the ? on change_audio returns its error from
\* try_consume_next_audio_command before any response is made.
ReturnsEarly(res) == res = "err"

\* Lines 149-155: the message sent for a response, Ok(()) or its error.
Response(id, res) == [id |-> id, ok |-> res = "ok"]

\* Playback::try_consume_next_audio_command, called at pc.
try_consume_next_audio_command ==
    IF cmd_chan = << >>
    THEN /\ pc' = AfterCommand(pc, format_reader, decoder, play)
         /\ step' = [kind |-> "empty"]
         /\ UNCHANGED << chans, facade, exit, playback, handled, replied, seek_floor, sunk, seg,
                         decoded_ok, since_pull, waiting, loaded >>
    ELSE LET i   == TryRecvIndex(cmd_chan)
             cmd == cmd_chan[i]
         IN  \E o \in HandleCommand(cmd) :
               LET early == ReturnsEarly(o.res)
                   sent  == ~early /\ o.res # "panic" /\ caller # "dropped"
                   dies  == ~sent
               IN  /\ play' = o.play
                   /\ format_reader' = o.format_reader
                   /\ decoder' = o.decoder
                   /\ track_id' = o.track_id
                   /\ seek_ts_seconds' = o.seek_ts_seconds
                   /\ handled' = Append(handled, cmd.id)
                   /\ seek_floor' = IF o.res = "ok" /\ cmd.op \in {"Seek", "ResetPlayback"}
                                    THEN o.seek_ts_seconds ELSE seek_floor
                   /\ loaded' = IF o.res = "ok" /\ cmd.op = "ChangeAudio"
                                THEN [some |-> TRUE, file |-> cmd.arg] ELSE loaded
                   /\ seg' = IF o.res = "ok" /\ cmd.op \in {"Seek", "ResetPlayback", "ChangeAudio"}
                             THEN Len(sunk) ELSE seg
                   /\ step' = [kind |-> "command", id |-> cmd.id, op |-> cmd.op,
                               arg |-> cmd.arg, res |-> o.res, replied |-> sent]
                   /\ reply_chan' = IF sent THEN Append(reply_chan, Response(cmd.id, o.res))
                                    ELSE reply_chan
                   /\ replied' = IF sent THEN Append(replied, cmd.id) ELSE replied
                   /\ cmd_chan' = IF dies THEN << >> ELSE RemoveAt(cmd_chan, i)
                   /\ waiting' = IF dies THEN << >> ELSE RemoveAt(waiting, i)
                   /\ since_pull' = [since_pull EXCEPT !.n = @ + 1,
                                                       !.paused = @ \/ ~o.play]
                   /\ pc' = IF dies THEN "exited"
                            ELSE AfterCommand(pc, o.format_reader, o.decoder, o.play)
                   /\ exit' = IF early THEN "command_error"
                              ELSE IF dies THEN "panic" ELSE exit
                   /\ UNCHANGED << facade, audio_output, sunk, decoded_ok >>

\* do_play_loop, first loop (lines 28-30).
AwaitTrack ==
    /\ pc = "await"
    /\ try_consume_next_audio_command
    /\ UNCHANGED library

\* do_play_loop, second loop, up to the play check (lines 31-36).
LoopCommand ==
    /\ pc = "loop"
    /\ try_consume_next_audio_command
    /\ UNCHANGED library


\* Line 34: the rest of the iteration runs only while play is true.
\* (AfterCommand sends the thread to "packet" only then.)

\* Mutant: the track check on line 44 is missing.
IsSelectedTrack_Any(pkt_track, tid) == TRUE

\* Line 44: a packet of another track than the selected one is skipped.
IsSelectedTrack(pkt_track, tid) == pkt_track = tid

\* Mutant: the floor check on line 72 is missing.
ShouldWrite_Always(ts, floor) == TRUE

\* Mutant: the floor check on line 72 is strict.
ShouldWrite_Strict(ts, floor) == ts > floor

\* Line 72: a decoded buffer is written when the packet's timestamp has
\* reached the seek position.
ShouldWrite(ts, floor) == ts >= floor

\* Mutant: the sink is opened anew when the buffer's format is another one.
OpenSink_ReopensOnNewSpec(ao, spec) ==
    IF ~ao.some \/ ao.spec # spec THEN [some |-> TRUE, spec |-> spec] ELSE ao

\* Mutant: the sink is left as it is, so that it is never opened.
OpenSink_Never(ao, spec) == ao

\* Lines 53-68: the sink is opened when there is none, for the sample format of
\* the decoded buffer (spec names the file the buffer comes from); the device
\* accepts the format (try_open returns Ok).
OpenSink(ao, spec) == IF ~ao.some THEN [some |-> TRUE, spec |-> spec] ELSE ao

\* Lines 72-76: the buffer is written when the packet's timestamp has reached
\* the floor and there is a sink.
Writes(ts, floor, ao) == ShouldWrite(ts, floor) /\ ao.some

\* Mutant: every error of decode breaks the loop.
DecodeArm_AllErrorsFatal(dec) == IF dec = "ok" THEN "ok" ELSE "fatal"

\* Mutant: every error of decode is logged and passed over.
DecodeArm_AllErrorsRecoverable(dec) == IF dec = "ok" THEN "ok" ELSE "recoverable"

\* Lines 49-84: the arm of the match that takes what decode returned.
DecodeArm(dec) ==
    CASE dec = "ok"         -> "ok"
      [] dec = "decode_err" -> "recoverable"
      [] OTHER              -> "fatal"

\* Mutant: next_packet passes over a packet.
NextPacketIndex_SkipsOne(pos) == pos + 2

\* Line 38: the index of the packet next_packet yields.
NextPacketIndex(pos) == pos + 1

\* Mutant: when next_packet fails the thread waits for another track.
AfterStreamError_AwaitsTrack == "await"

\* Lines 38-41: an error of next_packet (the end of the stream is one) breaks
\* the second loop, after which do_play_loop returns.
AfterStreamError == "exited"

\* do_play_loop, second loop, from next_packet on (lines 37-84).
LoopPacket ==
    /\ pc = "packet"
    /\ LET f == format_reader.file
           k == NextPacketIndex(format_reader.pos)
       IN
       IF k > Len(Packets(f))
       THEN \* next_packet: end of stream, an error; the loop breaks with it
            /\ pc' = AfterStreamError
            /\ exit' = "stream_error"
            /\ cmd_chan' = << >>
            /\ waiting' = << >>
            /\ step' = [kind |-> "packet", file |-> f, idx |-> k, res |-> "end_of_stream"]
            /\ UNCHANGED << reply_chan, facade, playback, handled, replied, seek_floor, sunk, seg,
                            decoded_ok, since_pull, loaded >>
       ELSE LET pkt == Packets(f)[k] IN
            /\ format_reader' = [format_reader EXCEPT !.pos = k]
            /\ since_pull' = [pulled |-> TRUE, n |-> 0, paused |-> FALSE]
            /\ IF ~IsSelectedTrack(pkt.track, track_id)
               THEN /\ pc' = "loop"
                    /\ step' = [kind |-> "packet", file |-> f, idx |-> k, res |-> "skipped"]
                    /\ UNCHANGED << decoder, audio_output, sunk, exit, cmd_chan, decoded_ok >>
               ELSE /\ decoder' = [decoder EXCEPT !.fed = k]
                    /\ CASE DecodeArm(pkt.dec) = "ok" ->
                              /\ audio_output' = OpenSink(audio_output, decoder.file)
                              /\ decoded_ok' = TRUE
                              /\ sunk' = IF Writes(pkt.ts, seek_ts_seconds, audio_output')
                                         THEN Append(sunk, [file |-> f, idx |-> k])
                                         ELSE sunk
                              /\ step' = [kind |-> "packet", file |-> f, idx |-> k,
                                          res |-> IF Writes(pkt.ts, seek_ts_seconds, audio_output')
                                                  THEN "written" ELSE "withheld"]
                              /\ pc' = "loop"
                              /\ UNCHANGED << exit, cmd_chan >>
                         [] DecodeArm(pkt.dec) = "recoverable" ->
                              /\ step' = [kind |-> "packet", file |-> f, idx |-> k,
                                          res |-> "decode_error"]
                              /\ pc' = "loop"
                              /\ UNCHANGED << audio_output, sunk, exit, cmd_chan, decoded_ok >>
                         [] OTHER ->
                              /\ step' = [kind |-> "packet", file |-> f, idx |-> k,
                                          res |-> "fatal"]
                              /\ pc' = "exited"
                              /\ exit' = "stream_error"
                              /\ cmd_chan' = << >>
                              /\ UNCHANGED << audio_output, sunk, decoded_ok >>
            /\ waiting' = IF pc' = "exited" THEN << >>
                          ELSE [j \in 1..Len(waiting) |-> waiting[j] - 1]
            /\ UNCHANGED << reply_chan, facade, play, seek_ts_seconds, track_id,
                            handled, replied, seek_floor, seg, loaded >>
    /\ UNCHANGED library

\* ------------------------------------------------------------- facade
\* Mutant: the send succeeds whether or not the receiver is still there.
Send_NeverFails(cmd) ==
    /\ cmd_chan' = Append(cmd_chan, cmd)
    /\ waiting' = Append(waiting, Len(cmd_chan) + 1)
    /\ last_ret' = [op |-> cmd.op, id |-> cmd.id, arg |-> cmd.arg, res |-> "ok"]

\* Sender::send fails once the playback thread has dropped its receiver.
Send(cmd) ==
    IF pc = "exited"
    THEN /\ UNCHANGED << cmd_chan, waiting >>
         /\ last_ret' = [op |-> cmd.op, id |-> cmd.id, arg |-> cmd.arg, res |-> "err"]
    ELSE /\ cmd_chan' = Append(cmd_chan, cmd)
         /\ waiting' = Append(waiting, Len(cmd_chan) + 1)
         /\ last_ret' = [op |-> cmd.op, id |-> cmd.id, arg |-> cmd.arg, res |-> "ok"]

\* A facade method that only sends: play, seek, reset_playback, change_audio.
SendOnly(op, arg) ==
    /\ caller = "idle"
    /\ calls < MaxCalls
    /\ calls' = NextId
    /\ Send([op |-> op, arg |-> arg, id |-> NextId])
    /\ UNCHANGED << reply_chan, caller, pc, exit, playback, history, library >>

\* AudioManager::play
Play == SendOnly("Play", 0)

\* AudioManager::seek
Seek == \E ts \in 0..MaxSeek : SendOnly("Seek", ts)

\* AudioManager::reset_playback sends Seek(0)
ResetPlayback == SendOnly("Seek", 0)

\* AudioManager::change_audio
ChangeAudio == \E f \in Files : SendOnly("ChangeAudio", f)

\* AudioManager::pause, the send (line 37): its ? returns the error.
PauseSend ==
    /\ caller = "idle"
    /\ calls < MaxCalls
    /\ calls' = NextId
    /\ IF pc = "exited"
       THEN /\ last_ret' = [op |-> "Pause", id |-> NextId, arg |-> 0, res |-> "err"]
            /\ UNCHANGED << cmd_chan, caller, waiting >>
       ELSE /\ cmd_chan' = Append(cmd_chan, [op |-> "Pause", arg |-> 0, id |-> NextId])
            /\ waiting' = Append(waiting, Len(cmd_chan) + 1)
            /\ caller' = "in_pause"
            /\ UNCHANGED last_ret
    /\ UNCHANGED << reply_chan, pc, exit, playback, history, library >>

\* AudioManager::pause, the recv (line 38): blocks until a reply is in the
\* channel or the playback thread is gone; unwraps the reply.
PauseRecv ==
    /\ caller = "in_pause"
    /\ IF reply_chan # << >>
       THEN /\ reply_chan' = Tail(reply_chan)
            /\ caller' = IF Head(reply_chan).ok THEN "idle" ELSE "panicked"
            /\ last_ret' = [op |-> "Pause", id |-> calls, arg |-> 0, res |-> "ok"]
       ELSE /\ pc = "exited"
            /\ caller' = "idle"
            /\ last_ret' = [op |-> "Pause", id |-> calls, arg |-> 0, res |-> "err"]
            /\ UNCHANGED reply_chan
    /\ UNCHANGED << cmd_chan, calls, pc, exit, playback, history, waiting, library >>

\* The AudioManager is dropped: its Sender and its Receiver go.
Drop ==
    /\ caller = "idle"
    /\ calls > 0
    /\ caller' = "dropped"
    /\ reply_chan' = << >>
    /\ UNCHANGED << cmd_chan, calls, last_ret, pc, exit, playback, history, waiting,
                    library >>

\* ------------------------------------------------------------ database
\* time::Duration: whole seconds and the nanoseconds beyond them.
Durations ==
    {[secs |-> sec, nanos |-> n] : sec \in 0..1, n \in {0, 500000000}}

\* Duration::seconds
Seconds(n) == [secs |-> n, nanos |-> 0]

\* Duration::whole_nanoseconds, cast to i64
WholeNanoseconds(d) == d.secs * NanosPerSecond + d.nanos

\* Paths as the caller may give them: "/music/a.mp3" and "/music/cover.png"
\* are canonical paths of files that exist, "a.mp3" and "cover.png" name the
\* same files relative to the working directory, "gone.mp3" does not exist.
AudioPaths == {"/music/a.mp3", "a.mp3", "gone.mp3"}
ImgPaths == {"/music/cover.png", "cover.png"}

\* Path::canonicalize
canonicalize(path) ==
    CASE path = "a.mp3"     -> [ok |-> TRUE, path |-> "/music/a.mp3"]
      [] path = "cover.png" -> [ok |-> TRUE, path |-> "/music/cover.png"]
      [] path = "gone.mp3"  -> [ok |-> FALSE]
      [] path = "music"     -> [ok |-> TRUE, path |-> "/music"]
      [] path = "gone"      -> [ok |-> FALSE]
      [] OTHER              -> [ok |-> TRUE, path |-> path]

\* Hash::to_string (the hex digits) and Hash::from_str.
HashToString(h) == [hex |-> h]
HashFromStr(str) == str.hex

\* An AudioFile of an existing file with the metadata of AudioFile::default.
PlainAudio(h) ==
    [file_hash |-> h, audio_title |-> "", album_name |-> "", artist_name |-> "",
     track_num |-> 1, release_year |-> 1, audio_length |-> Seconds(0),
     audio_path |-> "/music/a.mp3", img_path |-> None]

\* The AudioFiles with hash h that differ from it in title, length, path or
\* cover image.
AudioFiles(h) ==
    {[PlainAudio(h) EXCEPT !.audio_title = t, !.audio_length = d,
                           !.audio_path = ap, !.img_path = ip] :
        t \in {"", "title"}, d \in Durations, ap \in AudioPaths,
        ip \in {None} \cup {[some |-> TRUE, path |-> i] : i \in ImgPaths}}

\* The named parameters of insert_audio.sql and insert_audio_file.sql for
\* one AudioFile (lines 173-193); src is the element's place in the slice.
\* ok is false when a canonicalize fails, on which the unwrap panics.
InsertParams(a, src) ==
    LET ap == canonicalize(a.audio_path)
        ip == IF a.img_path.some THEN canonicalize(a.img_path.path) ELSE [ok |-> TRUE]
    IN  IF ~ap.ok \/ ~ip.ok THEN [ok |-> FALSE]
        ELSE [ok |-> TRUE,
              row |-> [src |-> src,
                       file_hash |-> HashToString(a.file_hash),
                       audio_title |-> a.audio_title,
                       album_name |-> a.album_name,
                       artist_name |-> a.artist_name,
                       track_num |-> a.track_num,
                       release_year |-> a.release_year,
                       audio_length_s |-> WholeNanoseconds(a.audio_length),
                       audio_path |-> ap.path,
                       img_path |-> IF a.img_path.some
                                    THEN [null |-> FALSE, text |-> ip.path]
                                    ELSE [null |-> TRUE]]]

\* audio_select_result_to_audiofile: a row of the select as an AudioFile.
audio_select_result_to_audiofile(row) ==
    [file_hash |-> HashFromStr(row.file_hash),
     audio_title |-> row.audio_title,
     album_name |-> row.album_name,
     artist_name |-> row.artist_name,
     track_num |-> row.track_num,
     release_year |-> row.release_year,
     audio_length |-> Seconds(row.audio_length_s),
     audio_path |-> row.audio_path,
     img_path |-> IF row.img_path.null THEN None
                  ELSE [some |-> TRUE, path |-> row.img_path.text]]

\* get_audio_by_hash: the first row with the hash, or a panic (unwrap).
get_audio_by_hash(hash) ==
    LET hits == SelectSeq(table, LAMBDA r : r.file_hash = HashToString(hash))
    IN  IF hits = << >> THEN [res |-> "panic"]
        ELSE [res |-> "ok", audio |-> audio_select_result_to_audiofile(hits[1])]

\* Mutant: the loop of insert_audios runs once.
MoreToInsert_FirstBatchOnly(i, n) == i = 0 /\ n > 0

\* Line 32: audio_iter.peek().is_some()
MoreToInsert(i, n) == i < n

\* Line 171: for _ in 0..=INSERT_BATCH_SIZE, after i iterations.
BatchGoesOn(i) == i <= INSERT_BATCH_SIZE

\* insert_audios returns r; an open transaction is dropped (rolled back).
InsertReturns(r) ==
    /\ insert_pc' = "returned"
    /\ insert_ret' = r
    /\ transaction' = [open |-> FALSE, rows |-> << >>]

PlaybackIdles == UNCHANGED << chans, facade, pc, exit, playback, history, waiting >>

\* insert_audios, lines 32-33 and 37: the loop test and conn.transaction()?.
InsertPeek ==
    /\ insert_pc = "peek"
    /\ IF MoreToInsert(audio_iter, Len(audios))
       THEN \/ /\ transaction' = [open |-> TRUE, rows |-> << >>]
               /\ insert_pc' = "batch"
               /\ batch_i' = 0
               /\ UNCHANGED insert_ret
            \/ InsertReturns("err") /\ UNCHANGED batch_i
       ELSE InsertReturns("ok") /\ UNCHANGED batch_i
    /\ UNCHANGED << audios, audio_iter, table, got, scan, catalog >>
    /\ PlaybackIdles

\* insert_next_batch_of_audios, one iteration of the for loop (lines 171-198).
InsertNext ==
    /\ insert_pc = "batch"
    /\ IF BatchGoesOn(batch_i) /\ audio_iter < Len(audios)
       THEN LET params == InsertParams(audios[audio_iter + 1], audio_iter + 1) IN
            /\ audio_iter' = audio_iter + 1
            /\ IF ~params.ok
               THEN InsertReturns("panic") /\ UNCHANGED batch_i
               ELSE \/ /\ transaction' = [transaction EXCEPT !.rows = Append(@, params.row)]
                       /\ batch_i' = batch_i + 1
                       /\ UNCHANGED << insert_pc, insert_ret >>
                    \/ InsertReturns("err") /\ UNCHANGED batch_i
       ELSE /\ insert_pc' = "commit"
            /\ UNCHANGED << audio_iter, batch_i, transaction, insert_ret >>
    /\ UNCHANGED << audios, table, got, scan, catalog >>
    /\ PlaybackIdles

\* insert_audios, line 35: transaction.commit()?
InsertCommit ==
    /\ insert_pc = "commit"
    /\ \/ /\ table' = table \o transaction.rows
          /\ transaction' = [open |-> FALSE, rows |-> << >>]
          /\ insert_pc' = "peek"
          /\ UNCHANGED insert_ret
       \/ InsertReturns("err") /\ UNCHANGED table
    /\ UNCHANGED << audios, audio_iter, batch_i, got, scan, catalog >>
    /\ PlaybackIdles

\* get_audio_by_hash for an element of the slice insert_audios has inserted.
GetAudioByHash ==
    /\ insert_pc = "returned"
    /\ insert_ret = "ok"
    /\ ~got.some
    /\ \E i \in 1..Len(audios) :
          got' = [some |-> TRUE, of |-> i, ret |-> get_audio_by_hash(audios[i].file_hash)]
    /\ UNCHANGED << audios, audio_iter, insert_pc, batch_i, transaction, table,
                    insert_ret, scan, catalog >>
    /\ PlaybackIdles


\* ----------------------------------------------------------- playlists
\* The title insert_audios_into_playlist is called with.
PlaylistTitle == "my_playlist"

\* The named parameters of add_audio_to_playlist.sql for one AudioFile
\* (playlists.rs, lines 74-77); src is the element's place in the slice.
PlaylistParams(a, src) ==
    [src |-> src, playlist_name |-> PlaylistTitle, file_hash |-> HashToString(a.file_hash)]

\* insert_audios_into_playlist, lines 33-34 and 38: the loop test and
\* conn.transaction()?.
PlaylistPeek ==
    /\ insert_pc = "playlist_peek"
    /\ IF MoreToInsert(audio_iter, Len(audios))
       THEN \/ /\ transaction' = [open |-> TRUE, rows |-> << >>]
               /\ insert_pc' = "playlist_batch"
               /\ batch_i' = 0
               /\ UNCHANGED insert_ret
            \/ InsertReturns("err") /\ UNCHANGED batch_i
       ELSE InsertReturns("ok") /\ UNCHANGED batch_i
    /\ UNCHANGED << audios, audio_iter, table, got, scan, catalog >>
    /\ PlaybackIdles

\* insert_next_batch_of_audios_into_playlist, one iteration of the for loop
\* (lines 72-82).
PlaylistNext ==
    /\ insert_pc = "playlist_batch"
    /\ IF BatchGoesOn(batch_i) /\ audio_iter < Len(audios)
       THEN /\ audio_iter' = audio_iter + 1
            /\ \/ /\ transaction' = [transaction EXCEPT !.rows =
                           Append(@, PlaylistParams(audios[audio_iter + 1], audio_iter + 1))]
                  /\ batch_i' = batch_i + 1
                  /\ UNCHANGED << insert_pc, insert_ret >>
               \/ InsertReturns("err") /\ UNCHANGED batch_i
       ELSE /\ insert_pc' = "playlist_commit"
            /\ UNCHANGED << audio_iter, batch_i, transaction, insert_ret >>
    /\ UNCHANGED << audios, table, got, scan, catalog >>
    /\ PlaybackIdles

\* insert_audios_into_playlist, line 36: transaction.commit()?
PlaylistCommit ==
    /\ insert_pc = "playlist_commit"
    /\ \/ /\ playlists' = playlists \o transaction.rows
          /\ transaction' = [open |-> FALSE, rows |-> << >>]
          /\ insert_pc' = "playlist_peek"
          /\ UNCHANGED insert_ret
       \/ InsertReturns("err") /\ UNCHANGED playlists
    /\ UNCHANGED << audios, audio_iter, batch_i, table, got, scan,
                    folder_paths, folder_rets, folders >>
    /\ PlaybackIdles

\* --------------------------------------------------- user media folders
\* Folder paths as the caller may give them: "/music" is the canonical path
\* of a folder that exists, "music" names it relative to the working
\* directory, "gone" does not exist.
FolderPaths == {"/music", "music", "gone"}

\* The path of the insert_user_media_folder call that is under way.
FolderPath == folder_paths[Len(folder_rets) + 1]

\* insert_user_media_folder returns r: its transaction goes out of scope,
\* and a rusqlite Transaction that is dropped without commit() rolls back.
FolderReturns(r) ==
    /\ folder_rets' = Append(folder_rets, r)
    /\ transaction' = [open |-> FALSE, rows |-> << >>]
    /\ insert_pc' = "folder_call"
    /\ UNCHANGED folders

\* insert_user_media_folder, line 10: conn.transaction()?
FolderBegin ==
    /\ insert_pc = "folder_call"
    /\ Len(folder_rets) < Len(folder_paths)
    /\ \/ /\ transaction' = [open |-> TRUE, rows |-> << >>]
          /\ insert_pc' = "folder_execute"
          /\ UNCHANGED << folder_rets, folders >>
       \/ FolderReturns("err")
    /\ UNCHANGED << audios, audio_iter, batch_i, table, insert_ret, got, scan,
                    playlists, folder_paths >>
    /\ PlaybackIdles

\* insert_user_media_folder, lines 11-15: prepare(..)?, canonicalize()? and
\* statement.execute(params)?
FolderExecute ==
    /\ insert_pc = "folder_execute"
    /\ LET cp == canonicalize(FolderPath) IN
       IF ~cp.ok THEN FolderReturns("err")
       ELSE \/ /\ transaction' = [transaction EXCEPT !.rows =
                                     Append(@, [folder_path |-> cp.path])]
               /\ insert_pc' = "folder_end"
               /\ UNCHANGED << folder_rets, folders >>
            \/ FolderReturns("err")
    /\ UNCHANGED << audios, audio_iter, batch_i, table, insert_ret, got, scan,
                    playlists, folder_paths >>
    /\ PlaybackIdles

\* insert_user_media_folder, lines 16-17: Ok(()) is returned; commit() is
\* not called anywhere in the function.
FolderEnd ==
    /\ insert_pc = "folder_end"
    /\ FolderReturns("ok")
    /\ UNCHANGED << audios, audio_iter, batch_i, table, insert_ret, got, scan,
                    playlists, folder_paths >>
    /\ PlaybackIdles


\* ------------------------------------------------------- audio files
\* What a path leads to: an audio file, a file that cannot be opened, a file
\* whose format the probe does not support, an audio file whose content
\* cannot be read when it is hashed.
PathKinds == {"audio", "unopenable", "unsupported", "unhashable"}

\* AudioFile::get_audio_probe: File::open(..).unwrap_or_else(panic) and the
\* probe's expect("unsupported format").
get_audio_probe(path) ==
    IF path.kind \in {"unopenable", "unsupported"} THEN [res |-> "panic"]
    ELSE [res |-> "ok"]

\* AudioFile::get_file_hash: the ? on File::open and on update_reader.
get_file_hash(path) ==
    IF path.kind = "unhashable" THEN [res |-> "err"]
    ELSE [res |-> "ok", hash |-> path.id]

\* AudioFile::from_file
from_file(path) ==
    IF get_audio_probe(path).res = "panic" THEN [res |-> "panic"]
    ELSE IF get_file_hash(path).res = "err" THEN [res |-> "err"]
    ELSE [res |-> "ok", audio |-> PlainAudio(get_file_hash(path).hash)]

\* get_audios_from_paths, the closure of filter_map applied to the next path.
ScanNext ==
    /\ scan_ret = "running"
    /\ path_iter < Len(paths)
    /\ path_iter' = path_iter + 1
    /\ LET r == from_file(paths[path_iter + 1]) IN
       /\ scan_ret' = IF r.res = "panic" THEN "panic" ELSE scan_ret
       /\ found' = IF r.res = "ok" THEN Append(found, r.audio) ELSE found
    /\ UNCHANGED << paths, store, catalog >>
    /\ PlaybackIdles

\* get_audios_from_paths, collect: the iterator is exhausted.
ScanReturn ==
    /\ scan_ret = "running"
    /\ path_iter = Len(paths)
    /\ scan_ret' = "ok"
    /\ UNCHANGED << paths, path_iter, found, store, catalog >>
    /\ PlaybackIdles

\* ------------------------------------------------------ specification
\* AudioManager::new and Playback::new
PlaybackInit ==
    /\ cmd_chan = << >>
    /\ reply_chan = << >>
    /\ caller = "idle"
    /\ calls = 0
    /\ last_ret = [op |-> "none", id |-> 0, arg |-> 0, res |-> "ok"]
    /\ pc = "await"
    /\ exit = "none"
    /\ format_reader = None
    /\ decoder = None
    /\ audio_output = None
    /\ play = TRUE
    /\ seek_ts_seconds = 0
    /\ track_id = 0
    /\ handled = << >>
    /\ replied = << >>
    /\ seek_floor = 0
    /\ step = [kind |-> "none"]
    /\ sunk = << >>
    /\ seg = 0
    /\ decoded_ok = FALSE
    /\ since_pull = [pulled |-> FALSE, n |-> 0, paused |-> FALSE]
    /\ loaded = None
    /\ waiting = << >>

\* No insert_audios call is under way, on an empty database.
StoreIdle ==
    /\ audios = << >>
    /\ audio_iter = 0
    /\ insert_pc = "idle"
    /\ batch_i = 0
    /\ transaction = [open |-> FALSE, rows |-> << >>]
    /\ table = << >>
    /\ insert_ret = "none"
    /\ got = None

\* No get_audios_from_paths call is under way.
ScanIdle ==
    /\ paths = << >>
    /\ path_iter = 0
    /\ found = << >>
    /\ scan_ret = "none"

\* No playlist and no user media folder is stored, and none is being added.
CatalogIdle ==
    /\ playlists = << >>
    /\ folder_paths = << >>
    /\ folder_rets = << >>
    /\ folders = << >>

Init == PlaybackInit /\ StoreIdle /\ ScanIdle /\ CatalogIdle

Controller == AwaitTrack \/ LoopCommand \/ LoopPacket

Next ==
    \/ Play
    \/ Seek
    \/ ResetPlayback
    \/ ChangeAudio
    \/ PauseSend
    \/ PauseRecv
    \/ Drop
    \/ AwaitTrack
    \/ LoopCommand
    \/ LoopPacket

Spec == Init /\ [][Next]_vars

\* The playback thread is a dedicated OS thread: it keeps taking steps.
FairSpec == Spec /\ WF_vars(Controller)


\* A run of change_audio (once, of a file that decodes without errors), play
\* and pause only.
ChangeAudioOnce ==
    /\ ~format_reader.some
    /\ \A i \in 1..Len(cmd_chan) : cmd_chan[i].op # "ChangeAudio"
    /\ SendOnly("ChangeAudio", "multi")

PlayPauseNext ==
    \/ ChangeAudioOnce
    \/ Play
    \/ PauseSend
    \/ PauseRecv
    \/ AwaitTrack
    \/ LoopCommand
    \/ LoopPacket

PlayPauseSpec == Init /\ [][PlayPauseNext]_vars /\ WF_vars(Controller)

\* A run in which change_audio is never called, so that no track is ever
\* loaded: play and pause, and seek and reset_playback as well.  The caller
\* thread blocked in recv runs again once a reply is there.
IdleNext ==
    \/ Play
    \/ Seek
    \/ ResetPlayback
    \/ PauseSend
    \/ PauseRecv
    \/ AwaitTrack

IdleSpec == Init /\ [][IdleNext]_vars /\ WF_vars(AwaitTrack) /\ WF_vars(PauseRecv)

\* A run of every kind of facade call and of the drop, the seeks being those
\* of reset_playback (to position 0); the playback thread keeps taking steps.
QueueNext ==
    \/ Play
    \/ ResetPlayback
    \/ ChangeAudio
    \/ PauseSend
    \/ PauseRecv
    \/ Drop
    \/ AwaitTrack
    \/ LoopCommand
    \/ LoopPacket

QueueSpec == Init /\ [][QueueNext]_vars /\ WF_vars(Controller)

\* insert_audios is called on an empty database with a slice of AudioFiles of
\* distinct hashes: of any length up to MaxAudios, or short with one
\* AudioFile of any kind in it.
StoreInit ==
    /\ PlaybackInit
    /\ ScanIdle
    /\ CatalogIdle
    /\ audios \in {[i \in 1..n |-> PlainAudio(i)] : n \in 0..MaxAudios}
                    \cup {<< a >> : a \in AudioFiles(1)}
                    \cup {<< PlainAudio(1), a >> : a \in AudioFiles(2)}
    /\ audio_iter = 0
    /\ insert_pc = "peek"
    /\ batch_i = 0
    /\ transaction = [open |-> FALSE, rows |-> << >>]
    /\ table = << >>
    /\ insert_ret = "none"
    /\ got = None

InsertAudios == InsertPeek \/ InsertNext \/ InsertCommit

StoreNext ==
    \/ InsertPeek
    \/ InsertNext
    \/ InsertCommit
    \/ GetAudioByHash

\* insert_audios runs on the caller's thread until it returns.
StoreSpec == StoreInit /\ [][StoreNext]_vars /\ WF_vars(InsertAudios)

\* get_audios_from_paths is called with a list of up to MaxPaths paths.
ScanInit ==
    /\ PlaybackInit
    /\ StoreIdle
    /\ CatalogIdle
    /\ \E n \in 0..MaxPaths :
          paths \in {[i \in 1..n |-> [id |-> i, kind |-> ks[i]]] : ks \in [1..n -> PathKinds]}
    /\ path_iter = 0
    /\ found = << >>
    /\ scan_ret = "running"

ScanNextState ==
    \/ ScanNext
    \/ ScanReturn

ScanSpec == ScanInit /\ [][ScanNextState]_vars

\* insert_audios or insert_audios_into_playlist is called on an empty
\* database with a slice of up to MaxAudios AudioFiles of distinct hashes.
BatchInit ==
    /\ PlaybackInit
    /\ ScanIdle
    /\ CatalogIdle
    /\ audios \in {[i \in 1..n |-> PlainAudio(i)] : n \in 0..MaxAudios}
    /\ audio_iter = 0
    /\ insert_pc \in {"peek", "playlist_peek"}
    /\ batch_i = 0
    /\ transaction = [open |-> FALSE, rows |-> << >>]
    /\ table = << >>
    /\ insert_ret = "none"
    /\ got = None

BatchNext ==
    \/ InsertPeek
    \/ InsertNext
    \/ InsertCommit
    \/ PlaylistPeek
    \/ PlaylistNext
    \/ PlaylistCommit

BatchSpec == BatchInit /\ [][BatchNext]_vars

\* insert_user_media_folder is called once for each of up to MaxFolders
\* paths, on a database with no folder in it.
FolderInit ==
    /\ PlaybackInit
    /\ ScanIdle
    /\ audios = << >>
    /\ audio_iter = 0
    /\ insert_pc = "folder_call"
    /\ batch_i = 0
    /\ transaction = [open |-> FALSE, rows |-> << >>]
    /\ table = << >>
    /\ insert_ret = "none"
    /\ got = None
    /\ playlists = << >>
    /\ \E n \in 0..MaxFolders : folder_paths \in [1..n -> FolderPaths]
    /\ folder_rets = << >>
    /\ folders = << >>

FolderNext ==
    \/ FolderBegin
    \/ FolderExecute
    \/ FolderEnd

FolderSpec == FolderInit /\ [][FolderNext]_vars

\* ------------------------------------------------------------- claims
HandledIds == {handled[i] : i \in 1..Len(handled)}

\* The last step of the playback thread pulled a packet (not the end of the stream).
PulledPacket == step.kind = "packet" /\ step.res # "end_of_stream"

StepPacket == Packets(step.file)[step.idx]

\* The packets of track tid of file f, in demux order.
TrackPackets(f, tid) ==
    SelectSeq([k \in 1..Len(Packets(f)) |-> [file |-> f, idx |-> k]],
              LAMBDA e : Packets(f)[e.idx].track = tid)

IsPrefix(s, t) == Len(s) <= Len(t) /\ SubSeq(t, 1, Len(s)) = s

\* C1: a ChangeAudio command that fails (file not opened or probed, no decoder
\* built) is answered with a reply on the reply channel and leaves the
\* playback thread running.
C1_FailedChangeAudioRepliedAndAlive ==
    (step.kind = "command" /\ step.op = "ChangeAudio" /\ step.res = "err")
        => (step.replied /\ pc # "exited")

\* C2: once pause() has returned Ok the playback thread has handled that Pause:
\* play is false and no packet is on its way to the sink.
C2_PauseReturnsAfterPauseHandled ==
    (last_ret.op = "Pause" /\ last_ret.res = "ok")
        => (last_ret.id \in HandledIds /\ ~play /\ pc # "packet")

\* C3: a facade call returns Ok only after the playback thread has handled the
\* command the call enqueued, and leaves no unread reply behind.
C3_CallReturnsAfterItsCommandHandled ==
    (caller = "idle" /\ last_ret.op # "none" /\ last_ret.res = "ok")
        => (last_ret.id \in HandledIds /\ reply_chan = << >>)

\* C4: change_audio returns Ok only when the track was loaded; it returns an
\* error when the probe, the track selection or the decoder fails.
C4_ChangeAudioOkOnlyWhenLoaded ==
    (last_ret.op = "ChangeAudio" /\ last_ret.res = "ok")
        => (/\ change_audio(last_ret.arg).res = "ok"
            /\ format_reader.some
            /\ format_reader.file = last_ret.arg)

\* C5: right after a successful ChangeAudio is handled the seek floor is 0.
C5_FloorZeroAfterChangeAudio ==
    (step.kind = "command" /\ step.op = "ChangeAudio" /\ step.res = "ok")
        => seek_ts_seconds = 0

\* C6: a buffer is written only for a packet whose timestamp is at least the
\* floor of the last handled Seek/ResetPlayback (0 if none); a packet of the
\* selected track below that floor is handed to the decoder and not written.
C6_NoWriteBelowSeekFloor ==
    PulledPacket =>
        /\ step.res = "written" => StepPacket.ts >= seek_floor
        /\ (StepPacket.track = track_id /\ StepPacket.ts < seek_floor)
              => (step.res \in {"withheld", "decode_error", "fatal"}
                  /\ decoder.fed = step.idx)

C6_Witness ==
    /\ PulledPacket
    /\ step.res = "withheld"
    /\ seek_floor > 0
    /\ sunk # << >>

\* C7: a pulled packet of another track than the selected one is neither
\* decoded nor written and leaves the playback state as it is; whatever is
\* written belongs to the selected track.
C7_OtherTracksSkipped ==
    [][(pc = "packet" /\ pc' # "packet" /\ step'.res # "end_of_stream") =>
         LET pkt == Packets(step'.file)[step'.idx] IN
         /\ pkt.track # track_id =>
               /\ step'.res = "skipped"
               /\ UNCHANGED << decoder, audio_output, sunk, play, seek_ts_seconds, track_id >>
         /\ sunk' # sunk => pkt.track = track_id
         /\ decoder' # decoder => pkt.track = track_id]_vars

C7_Witness ==
    /\ PulledPacket
    /\ step.res = "skipped"
    /\ step.file = "multi"
    /\ sunk # << >>
    /\ \A i \in 1..Len(sunk) : Packets(sunk[i].file)[sunk[i].idx].track = 1

\* C8: commands are handled in send order, each at most once; the k-th reply
\* is the reply to the k-th handled command, and when a reply is on the
\* channel the command's state change is in place.
C8_HandledInSendOrderRepliedInOrder ==
    /\ \A k \in 1..Len(handled) : handled[k] = k
    /\ IsPrefix(replied, handled)
    /\ (step.kind = "command" /\ step.replied) =>
          /\ replied[Len(replied)] = step.id
          /\ step.op = "Pause" => ~play
          /\ step.op = "Play" => play
          /\ step.op \in {"Seek", "ResetPlayback"} => seek_ts_seconds = seek_floor
          /\ step.op = "ChangeAudio" =>
                format_reader = [some |-> TRUE, file |-> step.arg, pos |-> 0]

C8_Witness ==
    /\ Len(replied) = MaxCalls
    /\ step.kind = "command"
    /\ step.op = "ChangeAudio"

\* C9: while play is false nothing but a Seek, ResetPlayback or ChangeAudio
\* moves the demuxer, touches the decoder or the seek floor, and nothing is
\* written; a pulled packet is the successor of the demuxer's position.
C9_PauseFreezesPlayback ==
    [][/\ (~play /\ ~(handled' # handled
                      /\ step'.op \in {"Seek", "ResetPlayback", "ChangeAudio"}))
            => UNCHANGED << format_reader, decoder, seek_ts_seconds, sunk >>
       /\ format_reader' # format_reader /\ handled' = handled
            => (play /\ step'.idx = format_reader.pos + 1
                /\ format_reader'.pos = format_reader.pos + 1)]_vars

C9_Witness ==
    /\ ~play
    /\ pc = "loop"
    /\ step.kind = "empty"
    /\ format_reader.some
    /\ format_reader.pos > 0
    /\ format_reader.pos < Len(Packets(format_reader.file))
    /\ sunk # << >>

\* C10: with one successful change_audio, no seek and no decode error, what is
\* written is the selected track's packets in demux order, each once; when
\* playback is left playing all of them are eventually written.
C10_WrittenIsPrefix ==
    format_reader.some =>
        IsPrefix(sunk, TrackPackets(format_reader.file, track_id))

C10_AllWritten ==
    /\ format_reader.some
    /\ sunk = TrackPackets(format_reader.file, track_id)

C10_EachPacketWrittenOnce ==
    /\ []C10_WrittenIsPrefix
    /\ (<>[](play /\ format_reader.some)) => <>C10_AllWritten

C10_Witness ==
    /\ C10_AllWritten
    /\ Len(sunk) = NPkts
    /\ Len(handled) = MaxCalls
    /\ last_ret.op = "Play"


SunkTs(i) == Packets(sunk[i].file)[sunk[i].idx].ts

\* C11: the timestamps written since a Seek, ResetPlayback or ChangeAudio was
\* last handled are non-decreasing.
C11_WrittenTimestampsNonDecreasing ==
    \A i \in (seg + 1)..(Len(sunk) - 1) : SunkTs(i) <= SunkTs(i + 1)

C11_Witness ==
    /\ last_ret.op = "Play"
    /\ Len(handled) = calls
    /\ Len(sunk) - seg >= NPkts
    /\ seg > 0


\* C12: with no track loaded, whatever play() and pause() calls are made (and
\* seek() and reset_playback() calls too), every call returns Ok, each pause()
\* returns, the playback thread stays in the first loop and nothing is
\* pulled, decoded or written, and no sink is opened.
C12_NothingHappens ==
    /\ pc = "await"
    /\ last_ret.res = "ok"
    /\ caller \in {"idle", "in_pause"}
    /\ format_reader = None
    /\ decoder = None
    /\ audio_output = None
    /\ sunk = << >>
    /\ step.kind # "packet"

C12_IdleNoOp ==
    /\ []C12_NothingHappens
    /\ (caller = "in_pause") ~> (caller = "idle" /\ last_ret.op = "Pause" /\ last_ret.id = calls)

C12_Witness ==
    /\ calls = MaxCalls
    /\ Len(handled) = MaxCalls
    /\ last_ret.op = "Pause"
    /\ last_ret.id = MaxCalls
    /\ caller = "idle"
    /\ ~play


\* C13: once the AudioManager is dropped the playback thread eventually
\* exits, while it awaits a first track and while a track is loaded.
C13_DropEndsPlaybackThread ==
    (caller = "dropped") ~> (pc = "exited")


\* C14: a facade call started after the playback thread has exited returns
\* an error, and returns at once.
C14_CallsFailAfterExit ==
    [][(pc = "exited" /\ calls' # calls) =>
          /\ caller' = "idle"
          /\ last_ret'.id = calls'
          /\ last_ret'.res = "err"]_vars

C14_Witness ==
    /\ pc = "exited"
    /\ exit = "stream_error"
    /\ caller = "idle"
    /\ last_ret.op = "Pause"
    /\ last_ret.res = "err"
    /\ last_ret.id > Len(handled)

\* C15: handling Pause sets play to false, handling Play sets it to true,
\* handling Seek, ResetPlayback or a successful ChangeAudio leaves it as it
\* is, in the first loop and in the second.
C15_PlayFlagTransitions ==
    [][handled' # handled =>
          /\ step'.op = "Pause" => ~play'
          /\ step'.op = "Play" => play'
          /\ (step'.op \in {"Seek", "ResetPlayback", "ChangeAudio"} /\ step'.res = "ok")
                => play' = play]_vars

C15_Witness ==
    /\ step.kind = "command"
    /\ step.op = "ChangeAudio"
    /\ step.res = "ok"
    /\ ~play
    /\ pc = "loop"
    /\ Len(handled) > 1


\* The demuxer's seek to ts fails in the current state.
SeekFails(ts) ==
    /\ format_reader.some
    /\ decoder.some
    /\ \A s \in format_reader_seek(format_reader, track_id, ts) : ~s.ok

C17_ResetPlaybackIsSeekZero ==
    /\ [](HandleResetPlayback = HandleSeek(0))
    /\ [][ResetPlayback =>
            /\ last_ret'.op = "Seek" /\ last_ret'.arg = 0
            /\ pc # "exited" =>
                 cmd_chan' = Append(cmd_chan, [op |-> "Seek", arg |-> 0, id |-> calls'])]_vars

C17_Witness ==
    /\ step.kind = "command"
    /\ step.op = "Seek"
    /\ step.arg = 0
    /\ format_reader.some
    /\ format_reader.pos = 0
    /\ seek_ts_seconds = 0
    /\ sunk # << >>
    /\ seg = Len(sunk)


\* The last step of the playback thread handled a ChangeAudio command.
HandledChangeAudio == step.kind = "command" /\ step.op = "ChangeAudio"

\* Indices of the tracks of f whose codec is not the null codec.
Supported(f) == {i \in 1..Len(Tracks(f)) : Tracks(f)[i].codec # "null"}

\* C18: after a successful ChangeAudio the selected track id is the id of the
\* first declared track whose codec is not the null codec, and the decoder
\* was built for that track.
C18_FirstSupportedTrackSelected ==
    (HandledChangeAudio /\ step.res = "ok") =>
        /\ Supported(step.arg) # {}
        /\ track_id = Tracks(step.arg)[Min(Supported(step.arg))].id
        /\ decoder.some
        /\ decoder.file = step.arg
        /\ decoder.track = track_id

C18_Witness ==
    /\ HandledChangeAudio
    /\ step.res = "ok"
    /\ step.arg = "multi"
    /\ track_id = 1
    /\ Len(handled) > 1

\* C19: a ChangeAudio of a container that has no track with a codec other
\* than the null codec yields an error result and attaches no demuxer and no
\* decoder.
C19_NoSupportedTrackIsAnError ==
    (HandledChangeAudio /\ Probes(step.arg) /\ Supported(step.arg) = {}) =>
        /\ step.res = "err"
        /\ format_reader.some => format_reader.file # step.arg
        /\ decoder.some => decoder.file # step.arg

\* C20: a failed ChangeAudio leaves demuxer, decoder, selected track id, seek
\* floor, sink and play flag as they were, and the previous track goes on
\* being played.
C20_FailedChangeAudioKeepsTrack ==
    [][(handled' # handled /\ step'.op = "ChangeAudio" /\ step'.res # "ok") =>
          /\ UNCHANGED playback
          /\ pc' # "exited"]_vars

\* The last step of the playback thread decoded a packet successfully.
DecodedOk == PulledPacket /\ step.res \in {"written", "withheld"}

\* C21: the sink is not open before a packet of the selected track has been
\* decoded successfully, it is open from the first successful decode on (also
\* when that packet lies below the seek floor), and nothing is written
\* without an open sink.
C21_SinkOpenedOnFirstDecode ==
    /\ audio_output.some <=> decoded_ok
    /\ DecodedOk => (audio_output.some /\ StepPacket.track = track_id
                                        /\ StepPacket.dec = "ok")
    /\ (sunk # << >> \/ (step.kind = "packet" /\ step.res = "written"))
          => audio_output.some

\* The first successful decode was of a packet below the floor: the sink is
\* open and nothing has been written yet.
C21_Witness ==
    /\ DecodedOk
    /\ step.res = "withheld"
    /\ audio_output.some
    /\ sunk = << >>
    /\ seek_ts_seconds > 0

\* Command i is in the command channel.
Queued(i) == \E j \in 1..Len(cmd_chan) : cmd_chan[j].id = i

HandedToDecoder ==
    PulledPacket /\ step.res \in {"written", "withheld", "decode_error", "fatal"}

\* C23: the demuxer is present exactly when the decoder is; the decoder is
\* the one built from the current demuxer's file for the selected track id,
\* which is the id of that file's first supported track; a packet handed to
\* the decoder comes from that demuxer and carries that id, and a packet is
\* skipped for carrying another id than the current one, also after a track
\* switch.
C23_DemuxerDecoderAgree ==
    /\ format_reader.some <=> decoder.some
    /\ format_reader.some =>
          /\ decoder.file = format_reader.file
          /\ decoder.track = track_id
          /\ track_id = Tracks(format_reader.file)[Min(Supported(format_reader.file))].id
    /\ PulledPacket =>
          /\ step.file = format_reader.file
          /\ step.idx = format_reader.pos
    /\ HandedToDecoder =>
          /\ decoder.file = step.file
          /\ decoder.fed = step.idx
          /\ StepPacket.track = decoder.track
    /\ (PulledPacket /\ step.res = "skipped") => StepPacket.track # track_id

\* After a switch from one track to another a packet of the new track has
\* been decoded, packets of the previous track having been written before.
C23_Witness ==
    /\ HandedToDecoder
    /\ step.file = "mono"
    /\ decoder.file = "mono"
    /\ sunk # << >>
    /\ sunk[1].file = "multi"

\* The step pulls a packet from the demuxer.
Pulls == pc = "packet" /\ step'.kind = "packet" /\ step'.res # "end_of_stream"

\* The step is the command check of an iteration of the second loop.
ChecksCommand == pc = "loop" /\ (handled' # handled \/ step' # step \/ pc' # pc)

\* One iteration of the loop: one command check that handles at most one
\* command, then, play being true, one packet pull, a command having been
\* there or not.
IterationShape ==
    /\ handled' # handled =>
          /\ pc \in {"await", "loop"}
          /\ handled' = Append(handled, cmd_chan[1].id)
    /\ ChecksCommand =>
          /\ step'.kind \in {"empty", "command"}
          /\ (play' /\ pc' # "exited") => (pc' = "packet" /\ format_reader'.some)
          /\ (~play' /\ pc' # "exited") => pc' = "loop"
    /\ pc = "packet" /\ pc' # pc =>
          /\ handled' = handled
          /\ step'.kind = "packet"
          /\ pc' \in {"loop", "exited"}
          /\ step'.res # "end_of_stream" =>
                /\ format_reader'.pos = format_reader.pos + 1
                /\ step'.idx = format_reader'.pos

\* C24 as stated: the iteration has that shape, between two consecutive
\* packet pulls at most one command is handled, and the command that was k-th
\* in the queue when sent is handled after at most k-1 further pulls.
C24_AtMostOneCommandBetweenPulls ==
    [][/\ IterationShape
       /\ (Pulls /\ since_pull.pulled) => since_pull.n <= 1
       /\ handled' # handled => waiting[1] >= 1]_vars

\* C24, amended: the iteration has that shape; between two consecutive packet
\* pulls at most one command is handled unless play was false in between
\* (the iterations of a paused loop handle commands and pull nothing); and
\* the command that was k-th in the queue when sent is handled after at most
\* k further pulls (it may be sent between the check and the pull of the
\* iteration that is running).
C24_OneCheckOnePullPerIteration ==
    [][/\ IterationShape
       /\ (Pulls /\ since_pull.pulled) => (since_pull.n <= 1 \/ since_pull.paused)
       /\ handled' # handled => waiting[1] >= 0]_vars

\* Two commands were sent between a check and the pull that followed it:
\* after that pull the thread is about to check again, the first of them
\* has used up its one packet and the second has one packet left.
C24_Witness ==
    /\ pc = "loop"
    /\ step.kind = "packet"
    /\ waiting = << 0, 1 >>
    /\ since_pull.pulled
    /\ since_pull.n = 0
    /\ Len(handled) >= 1

\* The paths of a are canonical paths of existing files, as from_file makes them.
CanonicalPaths(a) ==
    /\ canonicalize(a.audio_path) = [ok |-> TRUE, path |-> a.audio_path]
    /\ a.img_path.some => canonicalize(a.img_path.path) = [ok |-> TRUE, path |-> a.img_path.path]

\* C25: get_audio_by_hash of an AudioFile that insert_audios has inserted
\* (of any audio_length, with or without img_path, its paths being canonical)
\* returns an AudioFile equal to it in every field.
C25_InsertThenGetRoundTrip ==
    (got.some /\ CanonicalPaths(audios[got.of])) =>
        (got.ret.res = "ok" /\ got.ret.audio = audios[got.of])

\* The AudioFiles of the paths among the first n that can be read as audio.
RECURSIVE ReadableUpTo(_)
ReadableUpTo(n) ==
    IF n = 0 THEN << >>
    ELSE IF paths[n].kind = "audio"
         THEN Append(ReadableUpTo(n - 1), PlainAudio(paths[n].id))
         ELSE ReadableUpTo(n - 1)

\* C26: get_audios_from_paths does not abort on a path that cannot be read as
\* audio, and returns the AudioFiles of exactly the paths that can, in input
\* order: none for a list of bad files only.
C26_BadPathsSkipped ==
    /\ scan_ret # "panic"
    /\ scan_ret = "ok" => found = ReadableUpTo(Len(paths))

\* The rows the inserts of the whole slice write, in slice order.
RowsOf(slice) == [i \in 1..Len(slice) |-> InsertParams(slice[i], i).row]

\* C27: insert_audios terminates for a slice of any length, and when it
\* returns Ok the iterator is exhausted, no transaction is open and the
\* committed rows are those of the inserts of every element, once each and
\* in slice order.
C27_InsertAudiosInsertsAll ==
    /\ <>(insert_pc = "returned")
    /\ [](insert_ret = "ok" =>
            /\ audio_iter = Len(audios)
            /\ ~transaction.open
            /\ Len(table) = Len(audios)
            /\ \A i \in 1..Len(audios) : table[i] = RowsOf(audios)[i])

\* A slice longer than one batch has been inserted in more than one
\* transaction.
C27_Witness ==
    /\ insert_ret = "ok"
    /\ Len(audios) > INSERT_BATCH_SIZE + 1
    /\ Len(table) = Len(audios)
    /\ batch_i < Len(audios)

\* The step hands the decoder a packet of the selected track, and decode
\* returns r.
Decodes(r) ==
    /\ Pulls
    /\ Packets(step'.file)[step'.idx].track = track_id
    /\ Packets(step'.file)[step'.idx].dec = r

\* C28: a recoverable decode error writes nothing and opens no sink, leaves
\* the demuxer (but for the packet pulled), the decoder (but for the packet
\* fed), the seek floor, the selected track and play as they are, and the
\* playback thread goes on to the next iteration.
C28_DecodeErrorScopedToPacket ==
    [][Decodes("decode_err") =>
          /\ step'.res = "decode_error"
          /\ UNCHANGED << sunk, audio_output, seek_ts_seconds, track_id, play, exit,
                          cmd_chan, reply_chan >>
          /\ format_reader' = [format_reader EXCEPT !.pos = @ + 1]
          /\ decoder' = [decoder EXCEPT !.fed = step'.idx]
          /\ play'
          /\ pc' = "loop"]_vars

\* The decoder has just failed on a packet after one was written; the
\* playback thread is back at the command check.
C28_Witness ==
    /\ PulledPacket
    /\ step.res = "decode_error"
    /\ StepPacket.dec = "decode_err"
    /\ pc = "loop"
    /\ play
    /\ audio_output.some
    /\ sunk # << >>
    /\ sunk[Len(sunk)].idx = step.idx - 1

\* The step calls next_packet at the end of the stream, which is an error.
NextPacketFails ==
    /\ pc = "packet"
    /\ pc' # pc
    /\ NextPacketIndex(format_reader.pos) > Len(Packets(format_reader.file))

\* C29: an error of next_packet, and an error of decode other than a
\* DecodeError, end the loop with that error: the step writes nothing, and
\* once the playback thread has exited no packet is pulled, decoded or
\* written and no command is handled.
C29_FatalErrorEndsLoop ==
    [][/\ (NextPacketFails \/ Decodes("fatal")) =>
             /\ pc' = "exited"
             /\ exit' = "stream_error"
             /\ UNCHANGED << sunk, handled, replied, audio_output >>
       /\ pc = "exited" =>
             UNCHANGED << pc, exit, playback, handled, replied, sunk, step, cmd_chan >>]_vars

\* The loop has ended on a fatal decode error and a later call has failed.
C29_Witness ==
    /\ pc = "exited"
    /\ exit = "stream_error"
    /\ step.kind = "packet"
    /\ step.res = "fatal"
    /\ sunk # << >>
    /\ last_ret.op = "Play"
    /\ last_ret.res = "err"

\* C30: before its first step the playback thread is in the first loop with
\* no demuxer, no decoder, no sink, floor 0 and play true; and as long as no
\* ChangeAudio has succeeded it stays there (or has exited), holds none of the
\* three, keeps the floor at 0, and has pulled, decoded and written nothing.
C30_AwaitsTrackUntilLoaded ==
    /\ step.kind = "none" =>
          /\ pc = "await"
          /\ format_reader = None /\ decoder = None /\ audio_output = None
          /\ seek_ts_seconds = 0
          /\ play
    /\ ~loaded.some =>
          /\ pc \in {"await", "exited"}
          /\ format_reader = None /\ decoder = None /\ audio_output = None
          /\ seek_ts_seconds = 0
          /\ step.kind \in {"none", "empty", "command"}
          /\ ~since_pull.pulled
          /\ ~decoded_ok
          /\ sunk = << >>
    /\ (loaded.some /\ pc # "exited") => pc \in {"loop", "packet"}

\* With no track loaded the playback thread has handled a Pause and a Seek
\* and is polling.
C30_Witness ==
    /\ ~loaded.some
    /\ pc = "await"
    /\ Len(handled) >= 2
    /\ ~play
    /\ step.kind = "empty"
    /\ last_ret.op = "Seek"
    /\ last_ret.arg > 0

\* The playback thread's last step was the next_packet that found the
\* stream at its end.
StreamEnded == step.kind = "packet" /\ step.res = "end_of_stream"

\* C31: once next_packet has reported the end of the loaded track's stream
\* the playback thread has exited for good (every step it takes overwrites
\* step, so that it took none since); it is never in the first loop again
\* once a track was loaded; and a command sent after the end failed at the
\* send and is not among the handled ones.
C31_StreamEndEndsThread ==
    /\ StreamEnded =>
          /\ pc = "exited"
          /\ exit = "stream_error"
          /\ loaded.some /\ format_reader.some
          /\ step.idx > Len(Packets(step.file))
          /\ cmd_chan = << >>
          /\ last_ret.res = "err" => last_ret.id \notin HandledIds
    /\ loaded.some => pc # "await"

\* The track has finished and a change_audio called afterwards has failed.
C31_Witness ==
    /\ StreamEnded
    /\ last_ret.op = "ChangeAudio"
    /\ last_ret.res = "err"
    /\ last_ret.id = calls
    /\ Len(sunk) = NPkts

\* The step writes a buffer to the sink.
WritesBuffer == sunk' # sunk

\* The step handles a command.
HandlesCommand == handled' # handled

\* C32: commands are handled only between packets.  A step that handles a
\* command pulls and writes nothing, and is taken at the command check of an
\* iteration, where no pulled packet is pending; a step that pulls a packet
\* handles no command and is through with the packet when it ends (skipped,
\* decode error, withheld or written).  Hence a buffer that is written comes
\* from the packet pulled in that very step, from the demuxer as the commands
\* handled up to then left it: it is a packet of the file of the last
\* successful ChangeAudio, next after the position the last seek or pull left.
C32_CommandsOnlyBetweenPackets ==
    [][/\ HandlesCommand =>
             /\ pc \in {"await", "loop"}
             /\ sunk' = sunk
             /\ audio_output' = audio_output
             /\ step'.kind = "command"
             /\ step'.res = "ok" /\ step'.op \in {"Seek", "ChangeAudio"} => seg' = Len(sunk)
       /\ Pulls =>
             /\ ~HandlesCommand
             /\ cmd_chan' = cmd_chan \/ pc' = "exited"
             /\ pc' \in {"loop", "exited"}
             /\ step'.res \in {"skipped", "decode_error", "fatal", "withheld", "written"}
             /\ step'.res = "written" <=> WritesBuffer
       /\ WritesBuffer =>
             /\ Pulls
             /\ loaded.some
             /\ sunk' = Append(sunk, [file |-> loaded.file, idx |-> format_reader.pos + 1])
             /\ decoder.file = loaded.file
             /\ Len(sunk') > seg]_vars

\* A ChangeAudio of mono has been handled and answered while multi was
\* playing, and the first buffer written since is mono's first packet.
C32_Witness ==
    /\ Len(sunk) >= 2
    /\ seg = Len(sunk) - 1
    /\ sunk[seg].file = "multi"
    /\ sunk[Len(sunk)] = [file |-> "mono", idx |-> 1]
    /\ step.kind = "packet" /\ step.res = "written"
    /\ Len(replied) >= 2

FirstLoad == ~loaded.some /\ loaded'.some

\* C34: the play flag as the Play and Pause commands handled with no track
\* loaded left it (true when there were none) is the flag the first track
\* starts with: the step that loads the first track leaves it as it is and
\* takes the thread to the second loop; the flag changes only when a Play or
\* a Pause is handled, and a packet is pulled only while it is true.  So with
\* the flag false nothing is pulled until a Play is handled; and with the
\* flag true the thread pulls, and writes, unless a Pause is handled first.
C34_PlayFlagCarriesOver ==
    /\ [][/\ FirstLoad => (play' = play /\ pc' = "loop" /\ ~since_pull'.pulled)
          /\ play' # play => (HandlesCommand /\ step'.op = IF play' THEN "Play" ELSE "Pause")
          /\ Pulls => play
          /\ (pc' = "packet" /\ pc # "packet") => play']_vars
    /\ [](~loaded.some /\ Len(handled) = 0 => play)
    /\ (loaded.some /\ play /\ ~since_pull.pulled) ~> (since_pull.pulled \/ ~play)
    /\ (loaded.some /\ play /\ sunk = << >>) ~> (sunk # << >> \/ ~play)

\* A Pause was handled before the track was loaded and no Play since: the
\* thread polls in the second loop and nothing has been pulled.
C34_Witness ==
    /\ loaded.some
    /\ ~play
    /\ Len(handled) = 2
    /\ ~since_pull.pulled
    /\ pc = "loop"
    /\ step.kind = "empty"
    /\ calls = 2

\* C35: a sink that is open stays the very sink it is in every step (it is
\* not closed, reopened or replaced, whatever command is handled and
\* whatever track the buffers come from); the only step that changes
\* audio_output is the one that opens it, on a decoded buffer when there is
\* none; and every buffer is written to that sink.
C35_SinkOpenedOnce ==
    [][/\ audio_output.some => audio_output' = audio_output
       /\ audio_output' # audio_output =>
             /\ ~audio_output.some
             /\ Pulls
             /\ step'.res \in {"written", "withheld"}
             /\ audio_output' = [some |-> TRUE, spec |-> decoder.file]
       /\ (HandlesCommand /\ step'.op = "ChangeAudio") => audio_output' = audio_output
       /\ WritesBuffer => audio_output'.some]_vars

\* The sink was opened for multi's buffers, a ChangeAudio of mono was handled
\* since, and the buffer written last is mono's.
C35_Witness ==
    /\ audio_output = [some |-> TRUE, spec |-> "multi"]
    /\ loaded = [some |-> TRUE, file |-> "mono"]
    /\ sunk # << >>
    /\ sunk[1].file = "multi"
    /\ sunk[Len(sunk)].file = "mono"
    /\ step.kind = "packet" /\ step.res = "written"

\* The calls of insert_user_media_folder that have returned Ok.
FoldersAdded == {k \in 1..Len(folder_rets) : folder_rets[k] = "ok"}

\* C36: when insert_user_media_folder has returned Ok its transaction is no
\* longer open and the folder's row (its canonical path) is among the
\* committed rows, where later statements on the connection see it.
C36_FolderCommittedOnOk ==
    \A k \in FoldersAdded :
        /\ insert_pc = "folder_call" => ~transaction.open
        /\ \E r \in 1..Len(folders) :
              folders[r].folder_path = canonicalize(folder_paths[k]).path

\* C37: a transaction opened by insert_audios or by
\* insert_audios_into_playlist holds the inserts of at most INSERT_BATCH_SIZE
\* elements of the slice.
C37_BatchAtMostBatchSize ==
    insert_pc \in {"batch", "commit", "playlist_batch", "playlist_commit"} =>
        /\ Len(transaction.rows) <= INSERT_BATCH_SIZE
        /\ batch_i <= INSERT_BATCH_SIZE

====
